---------------------------- MODULE Spec2Model ----------------------------
(***************************************************************************)
(* A model of the emoji-explainer REST backend (src/project/*.py).          *)
(*                                                                         *)
(* The store is the four tables the services reach through the ORM client: *)
(* Emoji, Explanation, User and Session.  Every service function is a pure *)
(* operator from the tables and its arguments to the new tables and either *)
(* a returned value or a raised exception; the api_* actions apply it and  *)
(* wrap the result the way server.py does (any exception -> HTTP 500).     *)
(* For the claims about concurrent requests the same table operations are  *)
(* taken one await at a time by the processes of SpecRace.                 *)
(***************************************************************************)
EXTENDS Integers, Sequences, FiniteSets, TLC

VARIABLES
    emojis,        \* Emoji rows:        [id, symbol]
    explanations,  \* Explanation rows:  [id, content, emojiId, updatedBy]
    users,         \* User rows:         [id, username, password, email, role]
    sessions,      \* Session rows:      [id, userId, expiresAt]
    ids,           \* the next autoincrement id of each table
    now,           \* the wall clock read by datetime.now()
    last,          \* the last request answered: its arguments and HTTP response
    issued,        \* history: the (token, Session id) pairs successful logins made
    answered,      \* history: the (symbol, text) pairs explainEmoji has returned
    req            \* SpecRace: the position and locals of each in-flight request

vars == <<emojis, explanations, users, sessions, ids, now, last, issued, answered, req>>

-----------------------------------------------------------------------------
(* Bounds of the model and the input sets the requests are drawn from.     *)

MaxTime == 3
MaxSessions == 1
NumProcs == 2

Symbols == {"smile", "heart", "star"}
Texts == {"t1", "t2"}
RaceSymbols == {"smile"}
RaceTexts == {"t1", "t2"}
Idents == {"ann", "bob"}
RaceIdents == {"ann"}
RacePasswords == {"hunter2"}
NoRole == "None"
Roles == {"ADMIN", "USER", "SERVICE_MANAGER"}
RoleInputs == {NoRole, "ADMIN"}
UserRoleInputs == {NoRole}
Procs == 1..NumProcs

NoRow == [id |-> 0]
\* an exception is its class and str(e); NoExc stands for a normal return
Exc(type, msg) == [type |-> type, msg |-> msg]
NoExc == Exc("none", "")

-----------------------------------------------------------------------------
(* The Explanation Provider: one HTTP response per call.                   *)

HttpStatuses == {200, 503}
JsonBodies(T) == {[explanation |-> t] : t \in T} \cup {[detail |-> "n/a"]}
ProviderResponsesOver(T) == [status : HttpStatuses, json : JsonBodies(T)]
ProviderResponses == ProviderResponsesOver(Texts)

\* (mutant) the status is never looked at
raise_for_status_Never(response) == NoExc

\* httpx Response.raise_for_status: raises unless the status is 2xx
raise_for_status(response) ==
    IF response.status >= 200 /\ response.status < 300
    THEN NoExc
    ELSE Exc("HTTPStatusError", "error status")

\* fetch_explanation_from_groq: one GET, raise_for_status, result["explanation"]
fetch_explanation_from_groq(response) ==
    IF raise_for_status(response) # NoExc
    THEN [exc |-> raise_for_status(response), text |-> "", calls |-> 1]
    ELSE IF "explanation" \notin DOMAIN response.json
    THEN [exc |-> Exc("KeyError", "'explanation'"), text |-> "", calls |-> 1]
    ELSE [exc |-> NoExc, text |-> response.json.explanation, calls |-> 1]

-----------------------------------------------------------------------------
(* The ORM calls on Emoji and Explanation.                                 *)

\* (mutant) the lookup never matches
Emoji_find_unique_Miss(E, symbol) == NoRow

\* Emoji.prisma().find_unique(where={"symbol": emoji}): the row or None
Emoji_find_unique(E, symbol) ==
    IF \E r \in E : r.symbol = symbol
    THEN CHOOSE r \in E : r.symbol = symbol
    ELSE NoRow

\* (mutant) the explanations relation is not loaded
Emoji_explanations_NotIncluded(X, emoji_record) == {}

\* include={"explanations": True}: the Explanation rows of an Emoji row
Emoji_explanations(X, emoji_record) == {x \in X : x.emojiId = emoji_record.id}

\* (mutant) a create that inserts even when the symbol is already stored
Emoji_create_NoUnique(E, nextId, symbol) ==
    [exc |-> NoExc,
     row |-> [id |-> nextId, symbol |-> symbol],
     table |-> E \cup {[id |-> nextId, symbol |-> symbol]}]

\* Emoji.prisma().create(data={"symbol": emoji}); symbol is unique in the store
Emoji_create(E, nextId, symbol) ==
    IF \E r \in E : r.symbol = symbol
    THEN [exc |-> Exc("UniqueViolationError", "Unique constraint failed on symbol"),
          row |-> NoRow, table |-> E]
    ELSE [exc |-> NoExc,
          row |-> [id |-> nextId, symbol |-> symbol],
          table |-> E \cup {[id |-> nextId, symbol |-> symbol]}]

SystemAuthorId == 1

\* (mutant) the row is attributed to the emoji's id instead of the fixed author
Explanation_create_WrongAuthor(X, nextId, content, emojiId) ==
    X \cup {[id |-> nextId, content |-> content, emojiId |-> emojiId,
             updatedBy |-> emojiId]}

\* Explanation.prisma().create(data={content, emojiId, updatedBy: 1})
Explanation_create(X, nextId, content, emojiId) ==
    X \cup {[id |-> nextId, content |-> content, emojiId |-> emojiId,
             updatedBy |-> SystemAuthorId]}

-----------------------------------------------------------------------------
(* explainEmoji, as one uninterrupted call.  `first` is the row the store  *)
(* lists first among the Emoji's explanations (the order is the store's).  *)

\* (mutant) the Emoji row is created whether or not the lookup found one
explainEmoji_AlwaysCreatesEmoji(E, X, nid, emoji, response, first) ==
    LET emoji_record == Emoji_find_unique(E, emoji)
        same == [emojis |-> E, explanations |-> X, ids |-> nid]
    IN  IF emoji_record # NoRow /\ Emoji_explanations(X, emoji_record) # {}
        THEN same @@ [exc |-> NoExc, calls |-> 0,
                      value |-> [emoji |-> emoji, explanation |-> first.content]]
        ELSE
        LET fetched == fetch_explanation_from_groq(response) IN
        IF fetched.exc # NoExc
        THEN same @@ [exc |-> fetched.exc, calls |-> fetched.calls,
                      value |-> [emoji |-> emoji, explanation |-> ""]]
        ELSE
        LET created == Emoji_create(E, nid.emoji, emoji) IN
        IF created.exc # NoExc
        THEN same @@ [exc |-> created.exc, calls |-> fetched.calls,
                      value |-> [emoji |-> emoji, explanation |-> ""]]
        ELSE [emojis |-> created.table,
              explanations |-> Explanation_create(X, nid.explanation,
                                                   fetched.text, created.row.id),
              ids |-> [nid EXCEPT !.emoji = @ + 1, !.explanation = @ + 1],
              exc |-> NoExc, calls |-> fetched.calls,
              value |-> [emoji |-> emoji, explanation |-> fetched.text]]

explainEmoji(E, X, nid, emoji, response, first) ==
    LET emoji_record == Emoji_find_unique(E, emoji)
        same == [emojis |-> E, explanations |-> X, ids |-> nid]
    IN  IF emoji_record # NoRow /\ Emoji_explanations(X, emoji_record) # {}
        THEN same @@ [exc |-> NoExc, calls |-> 0,
                      value |-> [emoji |-> emoji, explanation |-> first.content]]
        ELSE
        LET fetched == fetch_explanation_from_groq(response) IN
        IF fetched.exc # NoExc
        THEN same @@ [exc |-> fetched.exc, calls |-> fetched.calls,
                      value |-> [emoji |-> emoji, explanation |-> ""]]
        ELSE
        LET created == IF emoji_record = NoRow
                       THEN Emoji_create(E, nid.emoji, emoji)
                       ELSE [exc |-> NoExc, row |-> emoji_record, table |-> E]
            nid1 == IF emoji_record = NoRow /\ created.exc = NoExc
                    THEN [nid EXCEPT !.emoji = @ + 1] ELSE nid
        IN  IF created.exc # NoExc
            THEN same @@ [exc |-> created.exc, calls |-> fetched.calls,
                          value |-> [emoji |-> emoji, explanation |-> ""]]
            ELSE [emojis |-> created.table,
                  explanations |-> Explanation_create(X, nid1.explanation,
                                                       fetched.text, created.row.id),
                  ids |-> [nid1 EXCEPT !.explanation = @ + 1],
                  exc |-> NoExc, calls |-> fetched.calls,
                  value |-> [emoji |-> emoji, explanation |-> fetched.text]]

\* the rows explanations[0] can be: any Explanation of the Emoji found
FirstExplanations(E, X, emoji) ==
    LET emoji_record == Emoji_find_unique(E, emoji) IN
    IF emoji_record # NoRow /\ Emoji_explanations(X, emoji_record) # {}
    THEN Emoji_explanations(X, emoji_record)
    ELSE {NoRow}

\* Response(content=...).render: None, bytes and str content become the body;
\* any other content has no .encode and raises AttributeError
Response_render(contentType) ==
    IF contentType \in {"NoneType", "bytes", "str"}
    THEN NoExc
    ELSE Exc("AttributeError", "object has no attribute 'encode'")

\* the try/except of every api_* handler.  The except branch builds
\* res = {"error": str(e)} and passes jsonable_encoder(res), a dict, to Response:
\* when rendering raises, the exception leaves the handler and the framework
\* answers its own plain 500.  `fault` is str(e) of the operation's exception.
Boundary(exc, value) ==
    IF exc = NoExc
    THEN [status |-> 200, raised |-> exc.type, fault |-> exc.msg,
          escaped |-> FALSE, body |-> value]
    ELSE IF Response_render("dict") = NoExc
    THEN [status |-> 500, raised |-> exc.type, fault |-> exc.msg,
          escaped |-> FALSE, body |-> [error |-> exc.msg]]
    ELSE [status |-> 500, raised |-> exc.type, fault |-> exc.msg,
          escaped |-> TRUE, body |-> [text |-> "Internal Server Error"]]

\* POST /emoji/explain
api_post_explainEmoji(emoji, response) ==
    \E first \in FirstExplanations(emojis, explanations, emoji) :
        LET r == explainEmoji(emojis, explanations, ids, emoji, response, first) IN
        /\ emojis' = r.emojis
        /\ explanations' = r.explanations
        /\ ids' = r.ids
        /\ last' = [op |-> "explainEmoji", arg |-> emoji, provider |-> response,
                    calls |-> r.calls]
                   @@ Boundary(r.exc, r.value)
        /\ answered' = IF r.exc = NoExc
                       THEN answered \cup {<<emoji, r.value.explanation>>}
                       ELSE answered
        /\ UNCHANGED <<users, sessions, now, issued, req>>

-----------------------------------------------------------------------------
(* Strings that are parsed or generated: a token is a sequence of          *)
(* one-character strings.                                                  *)

Digits == {"0", "1", "2", "3", "4", "5", "6", "7", "8", "9"}
DigitChar == <<"0", "1", "2", "3", "4", "5", "6", "7", "8", "9">>
DigitValue(c) == (CHOOSE i \in 1..10 : DigitChar[i] = c) - 1

\* str(n) of a non-negative int
RECURSIVE IntToStr(_)
IntToStr(n) ==
    IF n < 10 THEN <<DigitChar[n + 1]>>
    ELSE Append(IntToStr(n \div 10), DigitChar[(n % 10) + 1])

RECURSIVE DigitsValue(_)
DigitsValue(s) ==
    IF s = <<>> THEN 0
    ELSE 10 * DigitsValue(SubSeq(s, 1, Len(s) - 1)) + DigitValue(s[Len(s)])

\* int(s): an optional sign, then one or more decimal digits; anything else
\* raises ValueError (tokens here hold no blanks and no underscores)
ParseInt(s) ==
    LET signed == Len(s) > 0 /\ s[1] \in {"-", "+"}
        digits == IF signed THEN Tail(s) ELSE s
    IN  IF digits # <<>> /\ \A i \in 1..Len(digits) : digits[i] \in Digits
        THEN [ok |-> TRUE,
              value |-> IF signed /\ s[1] = "-"
                        THEN 0 - DigitsValue(digits) ELSE DigitsValue(digits)]
        ELSE [ok |-> FALSE, value |-> 0]

UuidLen == 36
UuidHex == {"0"}

\* str(uuid.uuid4()): 8-4-4-4-12 hexadecimal digits, version 4, variant 8..b;
\* h stands for the random hexadecimal digits
Uuid4Str(h) ==
    [i \in 1..UuidLen |->
        IF i \in {9, 14, 19, 24} THEN "-"
        ELSE IF i = 15 THEN "4"
        ELSE IF i = 20 THEN "8"
        ELSE h]
Uuid4Strings == {Uuid4Str(h) : h \in UuidHex}

-----------------------------------------------------------------------------
(* The identity operations.                                                *)

\* User.prisma().find_unique(where={"email": email})
User_find_unique_email(U, email) ==
    IF \E u \in U : u.email = email
    THEN CHOOSE u \in U : u.email = email
    ELSE NoRow

\* User.prisma().find_unique(where={"id": id})
User_find_unique_id(U, id) ==
    IF \E u \in U : u.id = id THEN CHOOSE u \in U : u.id = id ELSE NoRow

\* User.prisma().create(data=...); email is unique in the store
User_create(U, nextId, username, password, email, role) ==
    LET row == [id |-> nextId, username |-> username, password |-> password,
                email |-> email, role |-> role]
    IN  IF \E u \in U : u.email = email
        THEN [exc |-> Exc("UniqueViolationError", "Unique constraint failed on email"),
              row |-> NoRow, table |-> U]
        ELSE [exc |-> NoExc, row |-> row, table |-> U \cup {row}]

\* (mutant) the answer of find_unique is ignored and the row always created
registerUser_after_find_NoCheck(U, nid, existing_user, username, password, email, role) ==
    LET created == User_create(U, nid.user, username, password, email,
                               IF role # NoRole THEN role ELSE "USER")
    IN  IF created.exc # NoExc
        THEN [users |-> U, ids |-> nid, exc |-> NoExc,
              value |-> [message |-> "Registration failed due to an error.",
                         user_id |-> 0, error |-> created.exc.msg]]
        ELSE [users |-> created.table, ids |-> [nid EXCEPT !.user = @ + 1],
              exc |-> NoExc,
              value |-> [message |-> "User registered successfully.",
                         user_id |-> created.row.id, error |-> ""]]

\* what registerUser does once find_unique has answered `existing_user`
registerUser_after_find(U, nid, existing_user, username, password, email, role) ==
    IF existing_user # NoRow
    THEN [users |-> U, ids |-> nid, exc |-> NoExc,
          value |-> [message |-> "Registration failed: Email already in use.",
                     user_id |-> 0,
                     error |-> "A user with this email already exists."]]
    ELSE
    LET final_role == IF role # NoRole THEN role ELSE "USER"
        created == User_create(U, nid.user, username, password, email, final_role)
    IN  IF created.exc # NoExc
        THEN [users |-> U, ids |-> nid, exc |-> NoExc,
              value |-> [message |-> "Registration failed due to an error.",
                         user_id |-> 0, error |-> created.exc.msg]]
        ELSE [users |-> created.table, ids |-> [nid EXCEPT !.user = @ + 1],
              exc |-> NoExc,
              value |-> [message |-> "User registered successfully.",
                         user_id |-> created.row.id, error |-> ""]]

registerUser(U, nid, username, password, email, role) ==
    registerUser_after_find(U, nid, User_find_unique_email(U, email),
                            username, password, email, role)

\* the user loginUser looks up for the `username` argument
loginUser_find(U, username) == User_find_unique_email(U, username)

simulated_correct_password == "securepassword"
Passwords == {simulated_correct_password, "hunter2"}

\* timedelta(days=1), in clock ticks
OneDay == 2

\* Session.prisma().create(data={userId, expiresAt})
Session_create(S, nextId, userId, expiresAt) ==
    S \cup {[id |-> nextId, userId |-> userId, expiresAt |-> expiresAt]}

\* Session.prisma().find_unique(where={"id": id})
Session_find_unique(S, id) ==
    IF \E r \in S : r.id = id THEN CHOOSE r \in S : r.id = id ELSE NoRow

\* (mutant) the token is the id of the Session row
login_token_SessionId(sessionId, uuid4) == IntToStr(sessionId)

\* the session_token loginUser returns, given the Session it is about to create
login_token(sessionId, uuid4) == uuid4

loginUser(U, S, nid, clock, username, password, uuid4) ==
    LET user == loginUser_find(U, username)
        same == [sessions |-> S, ids |-> nid, value |-> [session_token |-> <<>>]]
    IN  IF user = NoRow
        THEN same @@ [exc |-> Exc("ValueError", "User does not exist")]
        ELSE IF password # simulated_correct_password
        THEN same @@ [exc |-> Exc("ValueError", "Incorrect password")]
        ELSE [sessions |-> Session_create(S, nid.session, user.id, clock + OneDay),
              ids |-> [nid EXCEPT !.session = @ + 1],
              exc |-> NoExc,
              value |-> [session_token |-> login_token(nid.session, uuid4)]]

\* (mutant) logout removes the Session row instead of updating it
logoutUser_Delete(S, clock1, clock2, token) ==
    LET parsed == ParseInt(token)
        session == IF \E r \in S : r.id = parsed.value
                   THEN CHOOSE r \in S : r.id = parsed.value ELSE NoRow
    IN  IF ~parsed.ok
        THEN [sessions |-> S, exc |-> NoExc,
              value |-> [message |-> "Invalid session token."]]
        ELSE IF session = NoRow
        THEN [sessions |-> S, exc |-> NoExc,
              value |-> [message |-> "No active session found for the given token."]]
        ELSE IF session.expiresAt < clock1
        THEN [sessions |-> S, exc |-> NoExc,
              value |-> [message |-> "prisma.models.Session already expired."]]
        ELSE [sessions |-> S \ {session}, exc |-> NoExc,
              value |-> [message |-> "User successfully logged out."]]

\* logoutUser; clock1 and clock2 are its two readings of datetime.now()
logoutUser(S, clock1, clock2, token) ==
    LET parsed == ParseInt(token)
        session == Session_find_unique(S, parsed.value)
    IN  IF ~parsed.ok
        THEN [sessions |-> S, exc |-> NoExc,
              value |-> [message |-> "Invalid session token."]]
        ELSE IF session = NoRow
        THEN [sessions |-> S, exc |-> NoExc,
              value |-> [message |-> "No active session found for the given token."]]
        ELSE IF session.expiresAt < clock1
        THEN [sessions |-> S, exc |-> NoExc,
              value |-> [message |-> "prisma.models.Session already expired."]]
        ELSE [sessions |-> (S \ {session})
                             \cup {[session EXCEPT !.expiresAt = clock2]},
              exc |-> NoExc,
              value |-> [message |-> "User successfully logged out."]]

\* verifySession; SessionVerifyResponse requires user_role to be a Role, so
\* building it with user_role=None raises the model's ValidationError
verifySession(U, S, clock, session_token) ==
    LET parsed == ParseInt(session_token)
        session == Session_find_unique(S, parsed.value)
    IN  IF ~parsed.ok
        THEN [exc |-> Exc("ValueError", "invalid literal for int()"),
              value |-> [is_valid |-> FALSE, user_role |-> NoRole]]
        ELSE IF session # NoRow /\ session.expiresAt >= clock
        THEN [exc |-> NoExc,
              value |-> [is_valid |-> TRUE,
                         user_role |-> User_find_unique_id(U, session.userId).role]]
        ELSE [exc |-> Exc("ValidationError", "user_role: none is not an allowed value"),
              value |-> [is_valid |-> FALSE, user_role |-> NoRole]]

\* the role column is the enum Role: the store rejects any other value
Role_enum_accepts(role) == role \in Roles

\* User.prisma().update(where={"id": userId}, data={"role": newRole})
User_update_role(U, userId, newRole) ==
    IF ~Role_enum_accepts(newRole)
    THEN [exc |-> Exc("DataError", "invalid value for enum Role"), table |-> U]
    ELSE [exc |-> NoExc,
          table |-> {IF u.id = userId THEN [u EXCEPT !.role = newRole] ELSE u : u \in U}]

\* (mutant) the update has no where clause: every User gets the new role
updateUserRole_AllRows(U, userId, newRole) ==
    IF User_find_unique_id(U, userId) = NoRow
    THEN [users |-> U, exc |-> NoExc,
          value |-> [userId |-> userId, updatedRole |-> "", status |-> "User not found"]]
    ELSE IF ~Role_enum_accepts(newRole)
    THEN [users |-> U, exc |-> Exc("DataError", "invalid value for enum Role"),
          value |-> [userId |-> userId, updatedRole |-> "", status |-> ""]]
    ELSE [users |-> {[u EXCEPT !.role = newRole] : u \in U}, exc |-> NoExc,
          value |-> [userId |-> userId, updatedRole |-> newRole, status |-> "Success"]]

updateUserRole(U, userId, newRole) ==
    LET user == User_find_unique_id(U, userId)
        updated == User_update_role(U, userId, newRole)
    IN  IF user = NoRow
        THEN [users |-> U, exc |-> NoExc,
              value |-> [userId |-> userId, updatedRole |-> "",
                         status |-> "User not found"]]
        ELSE IF updated.exc # NoExc
        THEN [users |-> U, exc |-> updated.exc,
              value |-> [userId |-> userId, updatedRole |-> "", status |-> ""]]
        ELSE [users |-> updated.table, exc |-> NoExc,
              value |-> [userId |-> userId, updatedRole |-> newRole,
                         status |-> "Success"]]

\* PUT /users/role/update
api_put_updateUserRole(userId, newRole) ==
    LET r == updateUserRole(users, userId, newRole) IN
    /\ users' = r.users
    /\ last' = [op |-> "updateUserRole", arg |-> userId] @@ Boundary(r.exc, r.value)
    /\ UNCHANGED <<emojis, explanations, sessions, ids, now, issued, answered, req>>

\* POST /users/register
api_post_registerUser(username, password, email, role) ==
    LET r == registerUser(users, ids, username, password, email, role) IN
    /\ users' = r.users
    /\ ids' = r.ids
    /\ last' = [op |-> "registerUser", arg |-> email] @@ Boundary(r.exc, r.value)
    /\ UNCHANGED <<emojis, explanations, sessions, now, issued, answered, req>>

\* POST /users/login
api_post_loginUser(username, password, uuid4) ==
    LET r == loginUser(users, sessions, ids, now, username, password, uuid4) IN
    /\ r.exc = NoExc => Cardinality(sessions) < MaxSessions
    /\ sessions' = r.sessions
    /\ ids' = r.ids
    /\ last' = [op |-> "loginUser", arg |-> username] @@ Boundary(r.exc, r.value)
    /\ issued' = IF r.exc = NoExc
                 THEN issued \cup {[token |-> r.value.session_token,
                                    sessionId |-> ids.session]}
                 ELSE issued
    /\ UNCHANGED <<emojis, explanations, users, now, answered, req>>

\* POST /users/logout
api_post_logoutUser(token, elapsed) ==
    LET r == logoutUser(sessions, now, now + elapsed, token) IN
    /\ now + elapsed <= MaxTime
    /\ sessions' = r.sessions
    /\ now' = now + elapsed
    /\ last' = [op |-> "logoutUser", arg |-> token] @@ Boundary(r.exc, r.value)
    /\ UNCHANGED <<emojis, explanations, users, ids, issued, answered, req>>

\* GET /users/session/verify
api_get_verifySession(session_token) ==
    LET r == verifySession(users, sessions, now, session_token) IN
    /\ last' = [op |-> "verifySession", arg |-> session_token]
               @@ Boundary(r.exc, r.value)
    /\ UNCHANGED <<emojis, explanations, users, sessions, ids, now, issued,
                   answered, req>>

\* time passes between requests
Tick ==
    /\ now < MaxTime
    /\ now' = now + 1
    /\ UNCHANGED <<emojis, explanations, users, sessions, ids, last, issued,
                   answered, req>>

TokenInputs == {IntToStr(i) : i \in 0..MaxSessions} \cup Uuid4Strings

-----------------------------------------------------------------------------
(* DELETE /api/server/resource.  The handler takes resource_id as a string *)
(* and hands it to the store as the id of an Explanation.  Whether the     *)
(* store takes a string for that column is decided by the schema, which    *)
(* declares the type of Explanation.id: both answers are modelled.         *)

MaxRows == 2
ResourceIds == {IntToStr(i) : i \in 0..MaxRows}

\* the schema's answer to a string given as Explanation.id
StoreAcceptsStringId == BOOLEAN

\* Explanation.prisma().delete(where={"id": resource_id}): the deleted row,
\* None when no row has that id, an error when the id has the wrong type
Explanation_delete(X, resource_id, accepts) ==
    IF ~accepts
    THEN [exc |-> Exc("DataError", "invalid type for id"), row |-> NoRow, table |-> X]
    ELSE IF \E x \in X : IntToStr(x.id) = resource_id
    THEN LET x == CHOOSE x \in X : IntToStr(x.id) = resource_id
         IN  [exc |-> NoExc, row |-> x, table |-> X \ {x}]
    ELSE [exc |-> NoExc, row |-> NoRow, table |-> X]

\* deleteResourceAllocation: every exception becomes a message
deleteResourceAllocation(X, resource_id, accepts) ==
    LET deleted == Explanation_delete(X, resource_id, accepts) IN
    IF deleted.exc # NoExc
    THEN [explanations |-> X, exc |-> NoExc,
          value |-> [message |-> <<"Failed to delete resource allocation: ",
                                   deleted.exc.msg>>]]
    ELSE IF deleted.row # NoRow
    THEN [explanations |-> deleted.table, exc |-> NoExc,
          value |-> [message |-> <<"Resource allocation deleted successfully.">>]]
    ELSE [explanations |-> deleted.table, exc |-> NoExc,
          value |-> [message |-> <<"Resource allocation not found.">>]]

\* DELETE /api/server/resource
api_delete_deleteResourceAllocation(resource_id, accepts) ==
    LET r == deleteResourceAllocation(explanations, resource_id, accepts) IN
    /\ explanations' = r.explanations
    /\ last' = [op |-> "deleteResourceAllocation", arg |-> resource_id]
               @@ Boundary(r.exc, r.value)
    /\ UNCHANGED <<emojis, users, sessions, ids, now, issued, answered, req>>

-----------------------------------------------------------------------------
(* Concurrent requests: each process runs one request at a time and gives  *)
(* up control at every await.  req[p] holds its position and locals, and,  *)
(* while idle, the response of the request it finished last.               *)

NoResponse == [status |-> 0]
Idle(response) == [pc |-> "idle", response |-> response]
Finish(p, exc, value, calls) ==
    [req EXCEPT ![p] = Idle([calls |-> calls] @@ Boundary(exc, value))]

\* explainEmoji up to the end of `await find_unique`; a hit returns at once
explain_find(p, emoji) ==
    LET emoji_record == Emoji_find_unique(emojis, emoji)
        found == Emoji_explanations(explanations, emoji_record)
    IN  /\ req[p].pc = "idle"
        /\ IF emoji_record # NoRow /\ found # {}
           THEN \E first \in found :
                    req' = Finish(p, NoExc,
                                  [emoji |-> emoji, explanation |-> first.content], 0)
           ELSE req' = [req EXCEPT ![p] =
                           [pc |-> "fetch", emoji |-> emoji,
                            emoji_record |-> emoji_record]]
        /\ UNCHANGED <<emojis, explanations, users, sessions, ids, now, last,
                       issued, answered>>

\* ... to the end of `await fetch_explanation_from_groq`
explain_fetch(p, response) ==
    LET fetched == fetch_explanation_from_groq(response) IN
    /\ req[p].pc = "fetch"
    /\ IF fetched.exc # NoExc
       THEN req' = Finish(p, fetched.exc, NoRow, fetched.calls)
       ELSE req' = [req EXCEPT ![p] =
                       [pc |-> IF req[p].emoji_record = NoRow
                               THEN "create_emoji" ELSE "create_explanation",
                        emoji |-> req[p].emoji,
                        emoji_record |-> req[p].emoji_record,
                        explanation_text |-> fetched.text]]
    /\ UNCHANGED <<emojis, explanations, users, sessions, ids, now, last,
                   issued, answered>>

\* ... to the end of `await Emoji.prisma().create`
explain_create_emoji(p) ==
    LET created == Emoji_create(emojis, ids.emoji, req[p].emoji) IN
    /\ req[p].pc = "create_emoji"
    /\ emojis' = created.table
    /\ IF created.exc # NoExc
       THEN /\ req' = Finish(p, created.exc, NoRow, 1)
            /\ ids' = ids
       ELSE /\ req' = [req EXCEPT ![p].pc = "create_explanation",
                                  ![p].emoji_record = created.row]
            /\ ids' = [ids EXCEPT !.emoji = @ + 1]
    /\ UNCHANGED <<explanations, users, sessions, now, last, issued, answered>>

\* ... to the end of `await Explanation.prisma().create`, and the return
explain_create_explanation(p) ==
    /\ req[p].pc = "create_explanation"
    /\ explanations' = Explanation_create(explanations, ids.explanation,
                                          req[p].explanation_text,
                                          req[p].emoji_record.id)
    /\ ids' = [ids EXCEPT !.explanation = @ + 1]
    /\ req' = Finish(p, NoExc,
                     [emoji |-> req[p].emoji,
                      explanation |-> req[p].explanation_text], 1)
    /\ UNCHANGED <<emojis, users, sessions, now, last, issued, answered>>

\* registerUser up to the end of `await find_unique`; a match returns at once
register_find(p, username, password, email, role) ==
    LET existing_user == User_find_unique_email(users, email)
        r == registerUser_after_find(users, ids, existing_user,
                                     username, password, email, role)
    IN  /\ req[p].pc = "idle"
        /\ IF existing_user # NoRow
           THEN req' = Finish(p, r.exc, r.value, 0)
           ELSE req' = [req EXCEPT ![p] =
                           [pc |-> "create_user", username |-> username,
                            password |-> password, email |-> email, role |-> role]]
        /\ UNCHANGED <<emojis, explanations, users, sessions, ids, now, last,
                       issued, answered>>

\* ... to the end of `await User.prisma().create` inside the try, and the return
register_create(p) ==
    LET r == registerUser_after_find(users, ids, NoRow, req[p].username,
                                     req[p].password, req[p].email, req[p].role)
    IN  /\ req[p].pc = "create_user"
        /\ users' = r.users
        /\ ids' = r.ids
        /\ req' = Finish(p, r.exc, r.value, 0)
        /\ UNCHANGED <<emojis, explanations, sessions, now, last, issued, answered>>

-----------------------------------------------------------------------------

Init ==
    /\ emojis = {}
    /\ explanations = {}
    /\ users = {}
    /\ sessions = {}
    /\ ids = [emoji |-> 1, explanation |-> 1, user |-> 1, session |-> 1]
    /\ now = 0
    /\ last = [op |-> "none"]
    /\ issued = {}
    /\ answered = {}
    /\ req = [p \in Procs |-> Idle(NoResponse)]

NextExplain ==
    \E emoji \in Symbols, response \in ProviderResponses :
        api_post_explainEmoji(emoji, response)

SpecExplain == Init /\ [][NextExplain]_vars

NextUsers ==
    \/ \E username \in Idents, password \in Passwords, email \in Idents,
          role \in UserRoleInputs :
            api_post_registerUser(username, password, email, role)
    \/ \E username \in Idents, password \in Passwords, uuid4 \in Uuid4Strings :
            api_post_loginUser(username, password, uuid4)
    \/ \E token \in TokenInputs, elapsed \in {0, 1} :
            api_post_logoutUser(token, elapsed)
    \/ \E session_token \in TokenInputs : api_get_verifySession(session_token)
    \/ Tick

SpecUsers == Init /\ [][NextUsers]_vars

NewRoleInputs == Roles \cup {"SUPERUSER"}
UserIdInputs == 0..Cardinality(Idents)

NextRoles ==
    \/ \E ident \in Idents, role \in RoleInputs :
            api_post_registerUser(ident, simulated_correct_password, ident, role)
    \/ \E userId \in UserIdInputs, newRole \in NewRoleInputs :
            api_put_updateUserRole(userId, newRole)
    \/ \E username \in Idents, uuid4 \in Uuid4Strings :
            api_post_loginUser(username, simulated_correct_password, uuid4)
    \/ \E session_token \in TokenInputs : api_get_verifySession(session_token)
    \/ Tick

SpecRoles == Init /\ [][NextRoles]_vars

\* the symbols sent to POST /emoji/explain: emoji, and strings that are none
StoreSymbols == {"smile", "heart"}
NonEmojiInputs == {"", "a"}
StoreInputs == StoreSymbols \cup NonEmojiInputs

NextStore ==
    \/ \E emoji \in StoreInputs, response \in ProviderResponses :
            /\ ids.explanation <= MaxRows
            /\ api_post_explainEmoji(emoji, response)
    \/ \E resource_id \in ResourceIds, accepts \in StoreAcceptsStringId :
            api_delete_deleteResourceAllocation(resource_id, accepts)

SpecStore == Init /\ [][NextStore]_vars

NextRace ==
    \E p \in Procs :
        \/ \E emoji \in RaceSymbols : explain_find(p, emoji)
        \/ \E response \in ProviderResponsesOver(RaceTexts) : explain_fetch(p, response)
        \/ explain_create_emoji(p)
        \/ explain_create_explanation(p)
        \/ \E username \in RaceIdents, password \in RacePasswords,
              email \in RaceIdents, role \in RoleInputs :
                register_find(p, username, password, email, role)
        \/ register_create(p)

SpecRace == Init /\ [][NextRace]_vars

-----------------------------------------------------------------------------
(* Claims about explainEmoji taken one request at a time (SpecExplain).    *)

SymbolStored(symbol) == \E e \in emojis : e.symbol = symbol
SymbolExplained(symbol) ==
    \E e \in emojis : e.symbol = symbol /\ \E x \in explanations : x.emojiId = e.id
ProviderSucceeds(response) ==
    response.status = 200 /\ "explanation" \in DOMAIN response.json

\* C1: for a symbol with no Emoji row, an explainEmoji call whose provider call
\* succeeds calls the provider once, adds exactly one Emoji row with that symbol
\* and exactly one Explanation row (emojiId the new row's id, content the
\* provider text, updatedBy 1), and answers {emoji: input, explanation: text}.
C1_UnseenSymbolPersistsOnce ==
    [][\A emoji \in Symbols, response \in ProviderResponses :
        (/\ api_post_explainEmoji(emoji, response)
         /\ ~SymbolStored(emoji)
         /\ ProviderSucceeds(response))
        => /\ last'.calls = 1
           /\ last'.status = 200
           /\ last'.body = [emoji |-> emoji, explanation |-> response.json.explanation]
           /\ \E e \in emojis' \ emojis :
                /\ emojis' = emojis \cup {e}
                /\ e.symbol = emoji
                /\ \E x \in explanations' \ explanations :
                     /\ explanations' = explanations \cup {x}
                     /\ x.emojiId = e.id
                     /\ x.content = response.json.explanation
                     /\ x.updatedBy = 1]_vars

C1_Witness ==
    /\ last.op = "explainEmoji" /\ last.status = 200 /\ last.calls = 1
    /\ \E e \in emojis : e.symbol = last.arg /\ e.id = 2
         /\ \E x \in explanations : x.emojiId = e.id /\ x.content = last.body.explanation

\* C2: for a symbol whose Emoji row has at least one Explanation, explainEmoji
\* makes no provider call, leaves the store unchanged and returns the content of
\* an Explanation of that Emoji.
C2_HitReadsStore ==
    [][\A emoji \in Symbols, response \in ProviderResponses :
        (api_post_explainEmoji(emoji, response) /\ SymbolExplained(emoji))
        => /\ last'.calls = 0
           /\ emojis' = emojis /\ explanations' = explanations /\ ids' = ids
           /\ last'.status = 200
           /\ last'.body.emoji = emoji
           /\ \E e \in emojis : \E x \in explanations :
                /\ e.symbol = emoji /\ x.emojiId = e.id
                /\ last'.body.explanation = x.content]_vars

C2_Witness ==
    /\ last.op = "explainEmoji" /\ last.status = 200 /\ last.calls = 0
    /\ SymbolExplained(last.arg)
    /\ "explanation" \in DOMAIN last.provider.json
    /\ last.provider.json.explanation # last.body.explanation

\* C3: once an explainEmoji call for a symbol has succeeded with text t, every
\* later call for that symbol returns t and makes no provider call, whatever the
\* provider would answer now.
C3_FirstAnswerWins ==
    [][\A emoji \in Symbols, response \in ProviderResponses, t \in Texts :
        (api_post_explainEmoji(emoji, response) /\ <<emoji, t>> \in answered)
        => /\ last'.status = 200
           /\ last'.body.explanation = t
           /\ last'.calls = 0]_vars

C3_Witness ==
    /\ last.op = "explainEmoji" /\ last.status = 200 /\ last.calls = 0
    /\ last.provider.status = 200
    /\ "explanation" \in DOMAIN last.provider.json
    /\ <<last.arg, last.body.explanation>> \in answered
    /\ <<last.arg, last.provider.json.explanation>> \notin answered

\* C5: a provider non-success status during a cache miss ends the request as
\* HTTP 500 after one provider call, and the store is as it was before.
C5_ProviderFailureLeavesStore ==
    [][\A emoji \in Symbols, response \in ProviderResponses :
        (/\ api_post_explainEmoji(emoji, response)
         /\ ~SymbolExplained(emoji)
         /\ response.status # 200)
        => /\ last'.status = 500
           /\ last'.calls = 1
           /\ emojis' = emojis /\ explanations' = explanations /\ ids' = ids]_vars

C5_Witness ==
    /\ last.op = "explainEmoji" /\ last.status = 500 /\ last.calls = 1
    /\ last.provider.status = 503
    /\ "explanation" \in DOMAIN last.provider.json
    /\ ~SymbolStored(last.arg)
    /\ emojis # {}

\* C6: when the provider answers 200 without an explanation field, explainEmoji
\* signals a distinct "no explanation available" outcome: the request is not
\* answered with the generic fault (HTTP 500) a provider error status gets.
C6_MissingFieldIsNotAFault ==
    (/\ last.op = "explainEmoji"
     /\ last.calls = 1
     /\ last.provider.status = 200
     /\ "explanation" \notin DOMAIN last.provider.json)
    => last.status # 500

-----------------------------------------------------------------------------
(* Claims about concurrent requests (SpecRace).                            *)

ExplanationsOf(e) == {x \in explanations : x.emojiId = e.id}

\* C4: two concurrent explainEmoji requests for one unseen symbol can interleave
\* so that one Emoji has two Explanation rows (C4_Witness is that state).  What
\* holds in every state of the race: the store keeps Emoji.symbol unique, every
\* Explanation belongs to an Emoji row, and an Emoji never has more Explanation
\* rows than there are concurrent requests.
C4_DuplicatesBoundedByRequests ==
    /\ \A e1 \in emojis, e2 \in emojis : e1.symbol = e2.symbol => e1 = e2
    /\ \A x \in explanations : \E e \in emojis : x.emojiId = e.id
    /\ \A e \in emojis : Cardinality(ExplanationsOf(e)) <= NumProcs

C4_Witness ==
    \E e \in emojis : \E x1 \in explanations, x2 \in explanations :
        /\ x1.id # x2.id
        /\ x1.emojiId = e.id /\ x2.emojiId = e.id
        /\ x1.content # x2.content
        /\ \A p \in Procs : req[p].pc = "idle" /\ req[p].response.status = 200

\* C7: a registerUser whose lookup finds the email fails with "Registration
\* failed: Email already in use.", no user_id, and creates no User row; and in
\* every state, concurrent registrations included, no two User rows share an email.
C7_EmailStaysUnique ==
    /\ [](\A u1 \in users, u2 \in users : u1.email = u2.email => u1 = u2)
    /\ [][\A p \in Procs, username \in RaceIdents, password \in RacePasswords,
             email \in RaceIdents, role \in RoleInputs :
            (/\ register_find(p, username, password, email, role)
             /\ \E u \in users : u.email = email)
            => /\ users' = users
               /\ req'[p].pc = "idle"
               /\ req'[p].response.status = 200
               /\ req'[p].response.body.message
                    = "Registration failed: Email already in use."
               /\ req'[p].response.body.user_id = 0]_vars

C7_Witness ==
    /\ Cardinality(users) = 1
    /\ \E p \in Procs, q \in Procs :
        /\ req[p].pc = "idle" /\ req[p].response.status = 200
        /\ "message" \in DOMAIN req[p].response.body
        /\ req[p].response.body.message = "Registration failed: Email already in use."
        /\ req[q].pc = "idle" /\ req[q].response.status = 200
        /\ "message" \in DOMAIN req[q].response.body
        /\ req[q].response.body.message = "Registration failed due to an error."

-----------------------------------------------------------------------------
(* Claims about login and sessions (SpecUsers).                            *)

NotFound(response) ==
    response.status = 500 /\ response.fault = "User does not exist"
InvalidCredential(response) ==
    response.status = 500 /\ response.fault = "Incorrect password"

\* C8: login fails with NotFound exactly when no User row's username equals the
\* supplied username.
C8_LoginFindsByUsername ==
    last.op = "loginUser"
    => (NotFound(last) <=> ~\E u \in users : u.username = last.arg)

\* C9: for an existing user (the one User row with the supplied username), a
\* password other than the hardcoded secret fails with InvalidCredential and
\* creates no Session; the secret creates exactly one Session, with that user's
\* id and expiresAt = call time + one day; a failed login of either kind leaves
\* the Session table unchanged.
C9_ExistingUserLogin ==
    [][\A username \in Idents, password \in Passwords, uuid4 \in Uuid4Strings :
        api_post_loginUser(username, password, uuid4)
        => /\ last'.status = 500 => sessions' = sessions
           /\ \A u \in users :
                (/\ u.username = username
                 /\ \A v \in users : v.username = username => v = u)
                => /\ password # "securepassword" =>
                        InvalidCredential(last') /\ sessions' = sessions
                   /\ password = "securepassword" =>
                        /\ last'.status = 200
                        /\ \E x \in sessions' \ sessions :
                             /\ sessions' = sessions \cup {x}
                             /\ x.userId = u.id
                             /\ x.expiresAt = now + OneDay]_vars

\* What does hold of loginUser: the same statement about the user the lookup
\* finds, that is the User row whose email is the supplied username.
LoginOfFoundUser ==
    [][\A username \in Idents, password \in Passwords, uuid4 \in Uuid4Strings :
        api_post_loginUser(username, password, uuid4)
        => /\ last'.status = 500 => sessions' = sessions
           /\ \A u \in users : u.email = username =>
                /\ password # "securepassword" =>
                     InvalidCredential(last') /\ sessions' = sessions
                /\ password = "securepassword" =>
                     /\ last'.status = 200
                     /\ \E x \in sessions' \ sessions :
                          /\ sessions' = sessions \cup {x}
                          /\ x.userId = u.id
                          /\ x.expiresAt = now + OneDay]_vars

IssuedTokens == {i.token : i \in issued}

\* C10: the token a successful login returned never verifies as valid, and a
\* logout with it never changes the Session that login created.
C10_LoginTokenNeverValidates ==
    [][/\ \A token \in IssuedTokens :
            api_get_verifySession(token)
            => ~(last'.status = 200 /\ last'.body.is_valid)
       /\ \A token \in IssuedTokens, elapsed \in {0, 1} :
            api_post_logoutUser(token, elapsed)
            => \A i \in issued : i.token = token =>
                 \A x \in sessions : x.id = i.sessionId => x \in sessions']_vars

C10_Witness ==
    /\ last.op = "verifySession" /\ last.status = 500
    /\ \E i \in issued :
        /\ i.token = last.arg
        /\ \E x \in sessions : x.id = i.sessionId /\ x.expiresAt > now

-----------------------------------------------------------------------------
(* Claims about verifySession and updateUserRole (SpecRoles).              *)

RoleOf(userId) == (CHOOSE u \in users : u.id = userId).role

\* C12: verifySession reports is_valid=true only if the token parses to the id
\* of an existing Session whose expiresAt is strictly in the future (one whose
\* expiresAt equals the current instant is not valid), and then user_role is
\* the current role of the Session's User.
C12_ValidOnlyStrictlyFuture ==
    [][\A token \in TokenInputs :
        (api_get_verifySession(token) /\ last'.status = 200 /\ last'.body.is_valid)
        => /\ ParseInt(token).ok
           /\ \E x \in sessions :
                /\ x.id = ParseInt(token).value
                /\ x.expiresAt > now
                /\ last'.body.user_role = RoleOf(x.userId)]_vars

\* What does hold of verifySession: is_valid=true only for an existing Session
\* whose expiresAt is not before the current instant (equal counts as valid),
\* with the current role of the Session's User.
ValidOnlyIfNotPast ==
    [][\A token \in TokenInputs :
        (api_get_verifySession(token) /\ last'.status = 200 /\ last'.body.is_valid)
        => /\ ParseInt(token).ok
           /\ \E x \in sessions :
                /\ x.id = ParseInt(token).value
                /\ x.expiresAt >= now
                /\ last'.body.user_role = RoleOf(x.userId)]_vars

ValidAtExpiryInstant ==
    /\ last.op = "verifySession" /\ last.status = 200 /\ last.body.is_valid
    /\ last.body.user_role = "SERVICE_MANAGER"
    /\ \E x \in sessions : x.id = ParseInt(last.arg).value /\ x.expiresAt = now

\* C13: verifying the token of a Session whose expiry is in the past returns a
\* normal response with is_valid=false, and of one whose expiry is in the
\* future returns is_valid=true with the owner's role.
C13_ExpiredVerifiesFalse ==
    [][\A token \in TokenInputs :
        (api_get_verifySession(token) /\ ParseInt(token).ok)
        => \A x \in sessions : x.id = ParseInt(token).value =>
             /\ x.expiresAt < now =>
                  last'.status = 200 /\ last'.body.is_valid = FALSE
             /\ x.expiresAt > now =>
                  /\ last'.status = 200 /\ last'.body.is_valid = TRUE
                  /\ last'.body.user_role = RoleOf(x.userId)]_vars

-----------------------------------------------------------------------------
(* Claims about the handlers' try/except (SpecUsers).                      *)

\* C15: whenever the operation behind an endpoint raises, the handler answers
\* status 500 with the body {"error": str(e)} and no exception leaves the
\* handler; an operation that reports a failure in a field of its typed
\* response (logoutUser, registerUser) is answered with a non-500 status.
C15_FaultsBecomeErrorBody ==
    last.op # "none" =>
        /\ last.raised # "none" =>
              /\ last.status = 500
              /\ ~last.escaped
              /\ last.body = [error |-> last.fault]
        /\ last.raised = "none" => last.status # 500

-----------------------------------------------------------------------------
(* Claims about the Explanation store over all its endpoints (SpecStore).  *)

\* C16: no operation updates or removes an Explanation row: a row that exists
\* is still in the store, with the same content, after every step.
C16_ExplanationsAreNeverRemoved ==
    [][\A x \in explanations : x \in explanations']_vars

\* C17: POST /emoji/explain validates its input first: for an input that is
\* not an emoji (the empty string, a plain letter) the provider is not called
\* and no Emoji or Explanation row is created.
C17_NonEmojiIsNotProcessed ==
    [][\A emoji \in NonEmojiInputs, response \in ProviderResponses :
        api_post_explainEmoji(emoji, response)
        => /\ last'.calls = 0
           /\ emojis' = emojis
           /\ explanations' = explanations]_vars

\* C18: with requests taken one at a time there is always at most one
\* Explanation row per Emoji row and at most one Emoji row per symbol; and for
\* an Emoji row that has no Explanation, explainEmoji calls the provider once,
\* creates no Emoji row and, when the provider succeeds, adds exactly one
\* Explanation, attached to that Emoji.
C18_OneExplanationPerEmoji ==
    /\ [](\A e \in emojis :
            Cardinality({x \in explanations : x.emojiId = e.id}) <= 1)
    /\ [](\A e1 \in emojis, e2 \in emojis : e1.symbol = e2.symbol => e1 = e2)
    /\ [][\A emoji \in StoreInputs, response \in ProviderResponses :
            \A e \in emojis :
                (/\ api_post_explainEmoji(emoji, response)
                 /\ e.symbol = emoji
                 /\ ~\E x \in explanations : x.emojiId = e.id)
                => /\ last'.calls = 1
                   /\ emojis' = emojis
                   /\ IF ProviderSucceeds(response)
                      THEN \E x \in explanations' \ explanations :
                              /\ explanations' = explanations \cup {x}
                              /\ x.emojiId = e.id
                              /\ x.content = response.json.explanation
                      ELSE explanations' = explanations]_vars

\* the new row of a request that found its Emoji without an Explanation has
\* an id above the one created together with that Emoji
C18_Witness ==
    /\ last.op = "explainEmoji" /\ last.status = 200 /\ last.calls = 1
    /\ \E e \in emojis :
        /\ e.symbol = last.arg
        /\ \E x \in explanations :
             /\ x.emojiId = e.id /\ x.content = last.body.explanation
             /\ x.id > e.id /\ ids.explanation = x.id + 1

-----------------------------------------------------------------------------
(* Claims about the life of a Session (SpecUsers).                         *)

LoggedOut(response) ==
    /\ response.op = "logoutUser" /\ response.status = 200
    /\ response.body.message = "User successfully logged out."

\* no step removes a Session or moves its expiresAt later
ExpiryNeverMovesLater ==
    [][\A x \in sessions :
        \E y \in sessions' : y.id = x.id /\ y.expiresAt <= x.expiresAt]_vars

\* after a successful logout, and any passing of time, verifySession of the
\* same token does not answer is_valid=true
LoggedOutNeverVerifies ==
    [][(LoggedOut(last) /\ api_get_verifySession(last.arg))
        => ~(last'.status = 200 /\ last'.body.is_valid)]_vars

\* after a successful logout, and any passing of time, a further logoutUser of
\* the same token answers AlreadyExpired
LoggedOutIsAlreadyExpired ==
    [][\A elapsed \in {0, 1} :
        (LoggedOut(last) /\ api_post_logoutUser(last.arg, elapsed))
        => last'.body.message = "prisma.models.Session already expired."]_vars

\* C19: Session validity is monotone: no operation moves a Session's expiresAt
\* later or deletes a Session, and after a successful logoutUser a
\* verifySession of that Session at any time not earlier than the logout does
\* not answer is_valid=true and a further logoutUser answers AlreadyExpired.
C19_SessionValidityMonotone ==
    /\ ExpiryNeverMovesLater
    /\ LoggedOutNeverVerifies
    /\ LoggedOutIsAlreadyExpired

\* What does hold: no Session is ever removed, and a Session whose expiresAt is
\* before the current instant stays so and is never reported valid.
ExpiredStaysExpired ==
    [][\A x \in sessions : x.expiresAt < now =>
        /\ x \in sessions' /\ x.expiresAt < now'
        /\ \A token \in TokenInputs :
             (api_get_verifySession(token) /\ ParseInt(token).ok
              /\ ParseInt(token).value = x.id)
             => ~(last'.status = 200 /\ last'.body.is_valid)]_vars

=============================================================================
